---- MODULE Spec2Model ----
(***************************************************************************)
(* Client-side logic of the blog: the dark-mode switch island with the     *)
(* shared theme atom and the persisted preference, the head's bootstrap    *)
(* listener, the home page's article listing, and the keyboard handling    *)
(* of the embedded WebAssembly canvas.                                     *)
(***************************************************************************)
EXTENDS Integers, Sequences, FiniteSets, TLC

VARIABLES
    \* ---- theme state (DarkModeSwitch.tsx, BaseHead.astro, the atom store)
    localStorage,   \* the value stored under the key "darkMode"
    storageOK,      \* whether local-storage access works in this browser
    theme,          \* document.documentElement.dataset.theme
    darkModeAtom,   \* the value of the shared cell darkModeAtom
    mounted,        \* per switch: the component has rendered for the first time
    subscribed,     \* per switch: its store subscription effect has run
    pending,        \* per switch: a re-render is scheduled
    darkMode,       \* per switch: the value useAtom returned at its last render
    memoDeps,       \* per switch: the dependency list useMemo last ran with
    uncaught,       \* an event handler of this page ended in an uncaught error
    page,           \* how the current page was reached: "full" load or "swap"
    \* ---- history of the theme state
    clicks,         \* toggles handled on the current page view
    navs,           \* in-site navigations so far
    loads,          \* full page loads after the first
    last,           \* the operation that acted last
    snap,           \* what the last (at most two) toggles of this page view saw
    lastToggle,     \* <<b>>: the boolean the last toggle left; <<>>: no toggle yet
    \* ---- home page (index.astro)
    collection,     \* the entries getCollection("blog") returned, in its order
    posts,          \* the sorted array the page maps over
    listing,        \* the slugs of the rendered <li> items, top to bottom
    indexPc,        \* where the page's build is
    \* ---- embedded canvas (WASM.astro)
    rect,           \* canvas.getBoundingClientRect()
    viewport,       \* width and height of the viewport
    innerReported,  \* window.innerWidth / innerHeight are non-zero
    key,            \* the keydown event handled last, if no scroll or resize followed it
    \* ---- embedded program (WASM.astro)
    pagePc,         \* how far the component's markup has been parsed
    Module,         \* the host object window.Module
    scriptLoad,     \* the async program script: "none", "loading", "loaded", "failed"
    attempts,       \* loads of the program script started on this page view
    drawn,          \* the program has drawn on the canvas
    fullscreen,     \* document.fullscreenElement is set
    cursor,         \* Module.canvas.style.cursor
    fsRequest,      \* the fullscreen request awaiting the browser's answer
    event,          \* the UI event handled last and what became of it
    views           \* page views of the page with the embedded program so far

themeVars ==
    <<localStorage, storageOK, theme, darkModeAtom, mounted, subscribed, pending,
      darkMode, memoDeps, uncaught, page, clicks, navs, loads, last, snap, lastToggle>>

indexVars == <<collection, posts, listing, indexPc>>

canvasVars == <<rect, viewport, innerReported, key>>

embedVars ==
    <<pagePc, Module, scriptLoad, attempts, drawn, fullscreen, cursor, fsRequest, event,
      views>>

vars == <<themeVars, indexVars, canvasVars, embedVars>>

\* ------------------------------------------------------------------ bounds
NSwitch == 2
MaxClicks == 2
MaxNavs == 2
MaxLoads == 1
MaxPosts == 3
MaxDate == 3
MaxCoord == 2
MaxSize == 2
MaxView == 2
MaxViews == 2

Switches == 1..NSwitch

\* --------------------------------------------------------- persisted state
\* getItem yields null for a key that was never written
Absent == "null"
\* what a browser may hold under the key when a page is loaded
StoredValues == {Absent, "true", "false", "TRUE"}

\* the store's default for a visitor without a persisted preference
InitialValue == FALSE
\* JSON form in which the store persists the boolean
Serialize(b) == IF b THEN "true" ELSE "false"
\* the stored string read back as the boolean: dark only for "true"
Parse(s) == s = "true"
\* the store's read of the persisted preference; a failed read gives the default
StorageGet == IF storageOK THEN (IF localStorage = Absent THEN InitialValue ELSE Parse(localStorage))
              ELSE InitialValue
\* the store's write of the persisted preference; dropped when storage is blocked
StorageSet(b) == IF storageOK THEN Serialize(b) ELSE localStorage

\* ------------------------------------------------------------- the switch
\* a callback with its two branches exchanged
useMemoThemeInverted(d) == IF d THEN "light" ELSE "dark"
\* a callback that clears the attribute for the light palette
useMemoThemeClear(d) == IF d THEN "dark" ELSE "none"
\* useMemo's callback: the marker for the rendered boolean
useMemoTheme(d) == IF d THEN "dark" ELSE "light"
\* a component with the two icons exchanged
IconsSwapped(d) == IF d THEN {"moon"} ELSE {"sun"}
\* the icons in the returned markup: MdOutlineWbSunny or FaMoon
Icons(d) == IF d THEN {"sun"} ELSE {"moon"}
\* the checked prop handed to the Switch control
SwitchChecked(d) == d
\* a handler that writes the marker of the boolean it captured
ClickThemeSame(d) == IF d THEN "dark" ELSE "light"
\* onCheckedChange, first statement: the marker written on a click
ClickTheme(d) == IF d THEN "light" ELSE "dark"
\* a handler that hands the captured boolean on without negating it
ClickValueSame(d) == d
\* onCheckedChange, second statement: the value handed to setDarkMode
ClickValue(d) == ~d
\* a callback that runs on the first render only
MemoRunsOnce(i, d) == memoDeps[i] = <<>>
\* useMemo(..., [darkMode]): the callback runs on the first render and whenever
\* the dependency differs from the one of the previous render
MemoRuns(i, d) == memoDeps[i] # <<d>>
\* components that each keep a cell of their own
NotifiedSelf(i) == {i}
\* the components a change of the cell re-renders: every subscriber of the atom
Notified(i) == {j \in Switches : subscribed[j]}

\* the root's attribute after the router swapped in the new document: the
\* incoming <html lang="en"> carries no data-theme
SwapRootAttributes == "none"
\* the listener's earlier test: any stored string counts as dark
BootstrapTruthy(s) == s # Absent
\* the astro:after-swap listener's test of the stored string
BootstrapDark(s) == s # Absent /\ s = "true"

Remember(i) ==
    [sw |-> i, captured |-> darkMode[i], fresh |-> (darkMode[i] = darkModeAtom /\ ~pending[i]),
     atom |-> darkModeAtom, theme |-> theme, stored |-> localStorage, uncaught |-> uncaught]

\* the document and the script state right after a full page load: the inline
\* script has registered its listener, no island has run
FreshDocument ==
    /\ theme = "none"
    /\ darkModeAtom = InitialValue
    /\ mounted = [i \in Switches |-> FALSE]
    /\ subscribed = [i \in Switches |-> FALSE]
    /\ pending = [i \in Switches |-> FALSE]
    /\ darkMode = [i \in Switches |-> InitialValue]
    /\ memoDeps = [i \in Switches |-> <<>>]
    /\ uncaught = FALSE
    /\ page = "full"
    /\ clicks = 0
    /\ snap = <<>>

InitTheme ==
    /\ localStorage \in StoredValues
    /\ storageOK \in BOOLEAN
    /\ FreshDocument
    /\ navs = 0
    /\ loads = 0
    /\ last = "load"
    /\ lastToggle = <<>>

\* first render of a switch island: useAtom reads the cell, useMemo runs
Mount(i) ==
    /\ ~mounted[i]
    /\ mounted' = [mounted EXCEPT ![i] = TRUE]
    /\ darkMode' = [darkMode EXCEPT ![i] = darkModeAtom]
    /\ theme' = useMemoTheme(darkModeAtom)
    /\ memoDeps' = [memoDeps EXCEPT ![i] = <<darkModeAtom>>]
    /\ last' = "mount"
    /\ UNCHANGED <<localStorage, storageOK, darkModeAtom, subscribed, pending, uncaught,
                   page, clicks, navs, loads, snap, lastToggle>>
    /\ UNCHANGED <<indexVars, canvasVars, embedVars>>

\* the value of the cell once switch i has subscribed: the first subscriber
\* mounts the atom, which reads the persisted preference
AtomOnMount(i) ==
    IF \E j \in Switches : subscribed[j] THEN darkModeAtom ELSE StorageGet

\* the subscription effect of useAtom, run after the first commit
Subscribe(i) ==
    /\ mounted[i] /\ ~subscribed[i]
    /\ subscribed' = [subscribed EXCEPT ![i] = TRUE]
    /\ darkModeAtom' = AtomOnMount(i)
    /\ pending' = [pending EXCEPT ![i] = darkMode[i] # AtomOnMount(i)]
    /\ last' = "subscribe"
    /\ UNCHANGED <<localStorage, storageOK, theme, mounted, darkMode, memoDeps, uncaught,
                   page, clicks, navs, loads, snap, lastToggle>>
    /\ UNCHANGED <<indexVars, canvasVars, embedVars>>

\* a scheduled re-render of a switch
Render(i) ==
    /\ mounted[i] /\ pending[i]
    /\ pending' = [pending EXCEPT ![i] = FALSE]
    /\ darkMode' = [darkMode EXCEPT ![i] = darkModeAtom]
    /\ theme' = IF MemoRuns(i, darkModeAtom) THEN useMemoTheme(darkModeAtom) ELSE theme
    /\ memoDeps' = [memoDeps EXCEPT ![i] = <<darkModeAtom>>]
    /\ last' = "render"
    /\ UNCHANGED <<localStorage, storageOK, darkModeAtom, mounted, subscribed, uncaught,
                   page, clicks, navs, loads, snap, lastToggle>>
    /\ UNCHANGED <<indexVars, canvasVars, embedVars>>

\* a write of the shared cell: sets it, persists the value, and schedules a
\* render of every subscriber when the value changed
AtomWrite(i, v) ==
    /\ darkModeAtom' = v
    /\ localStorage' = StorageSet(v)
    /\ pending' = [j \in Switches |->
                     pending[j] \/ (j \in Notified(i) /\ v # darkModeAtom)]

\* a setter that keeps the value in the component tree only
setDarkModeVolatile(i, v) ==
    /\ darkModeAtom' = v
    /\ localStorage' = localStorage
    /\ pending' = [j \in Switches |->
                     pending[j] \/ (j \in Notified(i) /\ v # darkModeAtom)]

\* a setter that persists before it sets the cell and gives up on a failed write
setDarkModePersistFirst(i, v) ==
    IF storageOK THEN AtomWrite(i, v)
    ELSE UNCHANGED <<darkModeAtom, localStorage, pending>>

\* the setter useAtom(darkModeAtom) hands to the component
setDarkMode(i, v) == AtomWrite(i, v)

\* a click on switch i: the Switch's onCheckedChange
onCheckedChange(i) ==
    /\ mounted[i] /\ subscribed[i]
    /\ clicks < MaxClicks
    /\ theme' = ClickTheme(darkMode[i])
    /\ setDarkMode(i, ClickValue(darkMode[i]))
    /\ clicks' = clicks + 1
    /\ last' = "click"
    /\ snap' = IF Len(snap) = 2 THEN <<snap[2], Remember(i)>> ELSE Append(snap, Remember(i))
    /\ lastToggle' = <<darkModeAtom'>>
    /\ UNCHANGED <<storageOK, mounted, subscribed, darkMode, memoDeps, uncaught, page,
                   navs, loads>>
    /\ UNCHANGED <<indexVars, canvasVars, embedVars>>

\* a listener that catches the failed read and falls back to the light marker
AfterSwapCaught ==
    IF storageOK
    THEN /\ theme' = IF BootstrapDark(localStorage) THEN "dark" ELSE SwapRootAttributes
         /\ uncaught' = uncaught
    ELSE /\ theme' = "light"
         /\ uncaught' = uncaught

\* the listener of astro:after-swap, on the document the swap left
AfterSwap ==
    IF storageOK
    THEN /\ theme' = IF BootstrapDark(localStorage) THEN "dark" ELSE SwapRootAttributes
         /\ uncaught' = uncaught
    ELSE /\ theme' = SwapRootAttributes
         /\ uncaught' = TRUE

\* an in-site navigation: the router swaps the document, the old page's islands
\* are unmounted, the module-scoped store lives on, astro:after-swap fires
Navigate ==
    /\ navs < MaxNavs
    /\ navs' = navs + 1
    /\ AfterSwap
    /\ mounted' = [i \in Switches |-> FALSE]
    /\ subscribed' = [i \in Switches |-> FALSE]
    /\ pending' = [i \in Switches |-> FALSE]
    /\ darkMode' = [i \in Switches |-> InitialValue]
    /\ memoDeps' = [i \in Switches |-> <<>>]
    /\ page' = "swap"
    /\ clicks' = 0
    /\ snap' = <<>>
    /\ last' = "swap"
    /\ UNCHANGED <<localStorage, storageOK, darkModeAtom, loads, lastToggle>>
    /\ UNCHANGED <<indexVars, canvasVars, embedVars>>

\* a full page load (reload, a later visit): scripts start over, storage stays
FullLoad ==
    /\ loads < MaxLoads
    /\ loads' = loads + 1
    /\ theme' = "none"
    /\ darkModeAtom' = InitialValue
    /\ mounted' = [i \in Switches |-> FALSE]
    /\ subscribed' = [i \in Switches |-> FALSE]
    /\ pending' = [i \in Switches |-> FALSE]
    /\ darkMode' = [i \in Switches |-> InitialValue]
    /\ memoDeps' = [i \in Switches |-> <<>>]
    /\ uncaught' = FALSE
    /\ page' = "full"
    /\ clicks' = 0
    /\ snap' = <<>>
    /\ last' = "load"
    /\ UNCHANGED <<localStorage, storageOK, navs, lastToggle>>
    /\ UNCHANGED <<indexVars, canvasVars, embedVars>>

\* ------------------------------------------------------------ home page
Dates == 1..MaxDate
\* an entry of the blog collection: its slug and pubDate.valueOf()
Entry(slug, date) == [slug |-> slug, pubDate |-> date]
\* the collections getCollection may return: up to MaxPosts entries, slugs distinct
Collections ==
    UNION {{[k \in 1..n |-> Entry(k, d[k])] : d \in [1..n -> Dates]} : n \in 0..MaxPosts}

\* a comparator that orders oldest first
CompareAscending(a, b) == a.pubDate - b.pubDate
\* the comparator handed to sort
Compare(a, b) == b.pubDate - a.pubDate

\* a step that puts x in front of the elements the comparator ties with it
InsertUnstable(sorted, x) ==
    SelectSeq(sorted, LAMBDA e : Compare(e, x) < 0) \o <<x>>
        \o SelectSeq(sorted, LAMBDA e : Compare(e, x) >= 0)

\* one step of a stable sort: x goes behind every element the comparator does
\* not order after it
Insert(sorted, x) ==
    SelectSeq(sorted, LAMBDA e : Compare(e, x) <= 0) \o <<x>>
        \o SelectSeq(sorted, LAMBDA e : Compare(e, x) > 0)

RECURSIVE SortFrom(_, _)
SortFrom(sorted, rest) ==
    IF rest = <<>> THEN sorted ELSE SortFrom(Insert(sorted, Head(rest)), Tail(rest))

\* Array.prototype.sort with the comparator: stable, in comparator order
ArraySort(a) == SortFrom(<<>>, a)

IndexIdle ==
    /\ collection = <<>>
    /\ posts = <<>>
    /\ listing = <<>>
    /\ indexPc = "start"

\* await getCollection("blog")
GetCollection ==
    /\ indexPc = "start"
    /\ collection' \in Collections
    /\ indexPc' = "collected"
    /\ UNCHANGED <<posts, listing>>
    /\ UNCHANGED <<themeVars, canvasVars, embedVars>>

\* .sort((a, b) => b.data.pubDate.valueOf() - a.data.pubDate.valueOf())
SortPosts ==
    /\ indexPc = "collected"
    /\ posts' = ArraySort(collection)
    /\ indexPc' = "sorted"
    /\ UNCHANGED <<collection, listing>>
    /\ UNCHANGED <<themeVars, canvasVars, embedVars>>

\* posts.map((post) => <li>...</li>)
RenderList ==
    /\ indexPc = "sorted"
    /\ listing' = [k \in 1..Len(posts) |-> posts[k].slug]
    /\ indexPc' = "rendered"
    /\ UNCHANGED <<collection, posts>>
    /\ UNCHANGED <<themeVars, canvasVars, embedVars>>

\* -------------------------------------------------------- embedded canvas
Arrows == {"ArrowUp", "ArrowDown", "ArrowLeft", "ArrowRight"}
\* the key codes pressed: the ones the handler names and two it does not
Codes == Arrows \cup {"Space", "Enter", "KeyA"}

Rect(top, left, h, w) == [top |-> top, left |-> left, bottom |-> top + h, right |-> left + w]
\* the rectangles of a canvas of positive size around the viewport
Rects ==
    {Rect(t, l, h, w) : t \in -MaxCoord..MaxCoord, l \in -MaxCoord..MaxCoord,
                        h \in 1..MaxSize, w \in 1..MaxSize}

innerHeight == IF innerReported THEN viewport.h ELSE 0
innerWidth == IF innerReported THEN viewport.w ELSE 0
clientHeight == viewport.h
clientWidth == viewport.w

\* a test that looks at the top left corner only
isFullyVisibleTopLeft(r) == r.top >= 0 /\ r.left >= 0
\* isFullyVisible(el), r being el.getBoundingClientRect()
isFullyVisible(r) ==
    /\ r.top >= 0
    /\ r.left >= 0
    /\ r.bottom <= (IF innerHeight # 0 THEN innerHeight ELSE clientHeight)
    /\ r.right <= (IF innerWidth # 0 THEN innerWidth ELSE clientWidth)

\* a listener that treats every key as it treats an arrow key
KeydownPreventsAnyKey(code) ==
    IF code = "Space" THEN TRUE ELSE isFullyVisible(rect)
\* the keydown listener: whether it calls e.preventDefault() for e.code
KeydownPrevents(code) ==
    CASE code \in Arrows -> isFullyVisible(rect)
      [] code = "Space" -> TRUE
      [] OTHER -> FALSE

NoKey == [code |-> "none", defaultPrevented |-> FALSE, rect |-> Rect(0, 0, 1, 1),
          w |-> 1, h |-> 1]

CanvasIdle ==
    /\ rect = Rect(0, 0, 1, 1)
    /\ viewport = [w |-> 1, h |-> 1]
    /\ innerReported = TRUE
    /\ key = NoKey

InitCanvas ==
    /\ rect \in Rects
    /\ viewport \in [w : 1..MaxView, h : 1..MaxView]
    /\ innerReported \in BOOLEAN
    /\ key = NoKey

Shift(r, dx, dy) ==
    [top |-> r.top + dy, left |-> r.left + dx, bottom |-> r.bottom + dy, right |-> r.right + dx]

\* the move of the canvas when the browser scrolls the page for an unprevented key
DefaultScroll(code) ==
    CASE code \in {"ArrowDown", "Space"} -> Shift(rect, 0, -1)
      [] code = "ArrowUp" -> Shift(rect, 0, 1)
      [] code = "ArrowRight" -> Shift(rect, -1, 0)
      [] code = "ArrowLeft" -> Shift(rect, 1, 0)
      [] OTHER -> rect

\* a key press: the window's keydown listener runs, then the browser's default
\* action unless it was prevented (a page at the end of its range stays put)
KeyDown(code) ==
    /\ key' = [code |-> code, defaultPrevented |-> KeydownPrevents(code), rect |-> rect,
               w |-> viewport.w, h |-> viewport.h]
    /\ rect' = IF ~KeydownPrevents(code) /\ DefaultScroll(code) \in Rects
               THEN DefaultScroll(code) ELSE rect
    /\ UNCHANGED <<viewport, innerReported>>
    /\ UNCHANGED <<themeVars, indexVars, embedVars>>

\* the user scrolls the page by other means (wheel, touch, scrollbar)
Scroll(dx, dy) ==
    /\ <<dx, dy>> # <<0, 0>>
    /\ Shift(rect, dx, dy) \in Rects
    /\ rect' = Shift(rect, dx, dy)
    /\ key' = NoKey
    /\ UNCHANGED <<viewport, innerReported>>
    /\ UNCHANGED <<themeVars, indexVars, embedVars>>

\* the window is resized
Resize(w, h) ==
    /\ viewport' = [w |-> w, h |-> h]
    /\ viewport' # viewport
    /\ key' = NoKey
    /\ UNCHANGED <<rect, innerReported>>
    /\ UNCHANGED <<themeVars, indexVars, embedVars>>

\* ------------------------------------------------------- embedded program
\* the element document.getElementById("canvas") finds
CanvasElement == "canvas"
\* window.Module before the inline script has run
NoModule ==
    [defined |-> FALSE, canvas |-> "undefined", onRuntimeInitialized |-> FALSE,
     requestFullscreen |-> FALSE]
\* a page that supplies a fullscreen method of its own
HostObjectWithMethod ==
    [defined |-> TRUE, canvas |-> "canvas", onRuntimeInitialized |-> TRUE,
     requestFullscreen |-> TRUE]
\* var Module = { canvas: canvasElement, onRuntimeInitialized: function () {...} }
HostObject ==
    [defined |-> TRUE, canvas |-> CanvasElement, onRuntimeInitialized |-> TRUE,
     requestFullscreen |-> FALSE]
\* the button's call Module.requestFullscreen(false, true): lockPointer, resizeCanvas
FullscreenArgsSwapped == <<TRUE, FALSE>>
FullscreenArgs == <<FALSE, TRUE>>

NoRequest == [made |-> FALSE, lockPointer |-> FALSE, resizeCanvas |-> FALSE]
\* an event as its listener left it, with the page state it was handled in
Handled(type, target, prevented, threw) ==
    [type |-> type, target |-> target, defaultPrevented |-> prevented, threw |-> threw,
     load |-> scriptLoad, fullscreen |-> fullscreen]
NoEvent ==
    [type |-> "none", target |-> "none", defaultPrevented |-> FALSE, threw |-> FALSE,
     load |-> "none", fullscreen |-> FALSE]
\* where a right-click can land: on the canvas or elsewhere on the page
Targets == {CanvasElement, "body"}
\* values of the canvas's style.cursor: unset, forced by the page, set by the program
Cursors == {"", "default", "none"}

\* a listener that waits for the program before it prevents anything
ContextMenuPreventsLoaded(target) == target = CanvasElement /\ scriptLoad = "loaded"
\* the contextmenu listener is on the canvas and always calls e.preventDefault()
ContextMenuPrevents(target) == target = CanvasElement

\* a script element placed ahead of the inline script
AsyncScriptFirst == TRUE
\* the async script element follows the inline script in the markup
AsyncScriptParsed == pagePc # "start"

\* a page that starts the load again after a failure
LoadMayRetry == scriptLoad \in {"none", "failed"}
\* the script element starts its one load when it is parsed
LoadMayStart == scriptLoad = "none"

\* a handler that forces the cursor on every fullscreenchange
CursorOnChangeAlways(entered) == "default"
\* the fullscreenchange listener: the cursor it leaves
CursorOnChange(entered) == IF entered THEN "default" ELSE cursor

EmbedIdle ==
    /\ pagePc = "start"
    /\ Module = NoModule
    /\ scriptLoad = "none"
    /\ attempts = 0
    /\ drawn = FALSE
    /\ fullscreen = FALSE
    /\ cursor = ""
    /\ fsRequest = NoRequest
    /\ event = NoEvent
    /\ views = 1

\* the page once the component's markup and inline script have been processed
EmbedParsed ==
    /\ pagePc = "inline"
    /\ Module = HostObject
    /\ scriptLoad = "none"
    /\ attempts = 0
    /\ drawn = FALSE
    /\ fullscreen = FALSE
    /\ cursor = ""
    /\ fsRequest = NoRequest
    /\ event = NoEvent
    /\ views = 1

\* the parser reaches the component: button and canvas exist, the inline script
\* creates Module and registers the listeners
ParseComponent ==
    /\ pagePc = "start"
    /\ pagePc' = "inline"
    /\ Module' = HostObject
    /\ UNCHANGED <<scriptLoad, attempts, drawn, fullscreen, cursor, fsRequest, event, views>>
    /\ UNCHANGED <<themeVars, indexVars, canvasVars>>

\* the parser reaches <script async src=...>: the load of the program starts
StartLoad ==
    /\ AsyncScriptParsed
    /\ LoadMayStart
    /\ scriptLoad' = "loading"
    /\ attempts' = attempts + 1
    /\ UNCHANGED <<pagePc, Module, drawn, fullscreen, cursor, fsRequest, event, views>>
    /\ UNCHANGED <<themeVars, indexVars, canvasVars>>

\* the program arrives and runs: it adopts Module, defines requestFullscreen on
\* it, calls onRuntimeInitialized and draws
LoadSucceeds ==
    /\ scriptLoad = "loading"
    /\ scriptLoad' = "loaded"
    /\ Module' = [Module EXCEPT !.defined = TRUE, !.requestFullscreen = TRUE]
    /\ drawn' = TRUE
    /\ UNCHANGED <<pagePc, attempts, fullscreen, cursor, fsRequest, event, views>>
    /\ UNCHANGED <<themeVars, indexVars, canvasVars>>

\* the program cannot be fetched: the script element has no error handler
LoadFails ==
    /\ scriptLoad = "loading"
    /\ scriptLoad' = "failed"
    /\ UNCHANGED <<pagePc, Module, attempts, drawn, fullscreen, cursor, fsRequest, event, views>>
    /\ UNCHANGED <<themeVars, indexVars, canvasVars>>

\* a listener that also resets the palette
ContextMenuResetsTheme(target) ==
    /\ pagePc # "start"
    /\ event' = Handled("contextmenu", target, target = CanvasElement, FALSE)
    /\ theme' = "light"
    /\ UNCHANGED <<pagePc, Module, scriptLoad, attempts, drawn, fullscreen, cursor, fsRequest,
                   views>>
    /\ UNCHANGED <<localStorage, storageOK, darkModeAtom, mounted, subscribed, pending,
                   darkMode, memoDeps, uncaught, page, clicks, navs, loads, last, snap,
                   lastToggle>>
    /\ UNCHANGED <<indexVars, canvasVars>>

\* a right-click on the page
ContextMenu(target) ==
    /\ pagePc # "start"
    /\ event' = Handled("contextmenu", target, ContextMenuPrevents(target), FALSE)
    /\ UNCHANGED <<pagePc, Module, scriptLoad, attempts, drawn, fullscreen, cursor, fsRequest, views>>
    /\ UNCHANGED <<themeVars, indexVars, canvasVars>>

\* a click on the fullscreen button: onclick="Module.requestFullscreen(false, true);"
ClickFullscreen ==
    /\ pagePc # "start"
    /\ IF Module.requestFullscreen
       THEN /\ fsRequest' = [made |-> TRUE, lockPointer |-> FullscreenArgs[1],
                             resizeCanvas |-> FullscreenArgs[2]]
            /\ event' = Handled("click", "button", FALSE, FALSE)
       ELSE /\ fsRequest' = fsRequest
            /\ event' = Handled("click", "button", FALSE, TRUE)
    /\ UNCHANGED <<pagePc, Module, scriptLoad, attempts, drawn, fullscreen, cursor, views>>
    /\ UNCHANGED <<themeVars, indexVars, canvasVars>>

\* fullscreenchange: the browser grants the request (entered) or the user
\* leaves fullscreen; the document's listener runs
FullscreenChange(entered) ==
    /\ pagePc # "start"
    /\ IF entered THEN fsRequest.made /\ ~fullscreen ELSE fullscreen
    /\ fullscreen' = entered
    /\ fsRequest' = NoRequest
    /\ cursor' = CursorOnChange(entered)
    /\ event' = Handled("fullscreenchange", "document", FALSE, FALSE)
    /\ UNCHANGED <<pagePc, Module, scriptLoad, attempts, drawn, views>>
    /\ UNCHANGED <<themeVars, indexVars, canvasVars>>

\* the browser refuses the fullscreen request
FullscreenDenied ==
    /\ fsRequest.made
    /\ fsRequest' = NoRequest
    /\ event' = Handled("fullscreenerror", "document", FALSE, FALSE)
    /\ UNCHANGED <<pagePc, Module, scriptLoad, attempts, drawn, fullscreen, cursor, views>>
    /\ UNCHANGED <<themeVars, indexVars, canvasVars>>

\* the running program sets the canvas cursor
ProgramCursor(c) ==
    /\ scriptLoad = "loaded"
    /\ c # cursor
    /\ cursor' = c
    /\ UNCHANGED <<pagePc, Module, scriptLoad, attempts, drawn, fullscreen, fsRequest, event, views>>
    /\ UNCHANGED <<themeVars, indexVars, canvasVars>>

\* the reader opens the page again: a new page view, parsed from the start
Reload ==
    /\ views < MaxViews
    /\ views' = views + 1
    /\ pagePc' = "start"
    /\ Module' = NoModule
    /\ scriptLoad' = "none"
    /\ attempts' = 0
    /\ drawn' = FALSE
    /\ fullscreen' = FALSE
    /\ cursor' = ""
    /\ fsRequest' = NoRequest
    /\ event' = NoEvent
    /\ UNCHANGED <<themeVars, indexVars, canvasVars>>

\* -------------------------------------------------------- specifications
ThemeIdle ==
    /\ localStorage = Absent
    /\ storageOK = TRUE
    /\ FreshDocument
    /\ navs = 0
    /\ loads = 0
    /\ last = "load"
    /\ lastToggle = <<>>

\* the theme state of a visit: page loads, islands, clicks, navigations
Init == InitTheme /\ IndexIdle /\ CanvasIdle /\ EmbedIdle

Next ==
    \/ \E i \in Switches : Mount(i)
    \/ \E i \in Switches : Subscribe(i)
    \/ \E i \in Switches : Render(i)
    \/ \E i \in Switches : onCheckedChange(i)
    \/ Navigate
    \/ FullLoad

Spec == Init /\ [][Next]_vars

\* the build of the home page
IndexInit == ThemeIdle /\ IndexIdle /\ CanvasIdle /\ EmbedIdle

IndexNext == GetCollection \/ SortPosts \/ RenderList

SpecIndex == IndexInit /\ [][IndexNext]_vars

\* a page with the embedded canvas: keys, scrolling, resizing
CanvasInit == ThemeIdle /\ IndexIdle /\ InitCanvas /\ EmbedParsed

CanvasNext ==
    \/ \E code \in Codes : KeyDown(code)
    \/ \E dx \in {-1, 0, 1}, dy \in {-1, 0, 1} : Scroll(dx, dy)
    \/ \E w \in 1..MaxView, h \in 1..MaxView : Resize(w, h)

SpecCanvas == CanvasInit /\ [][CanvasNext]_vars

\* a page with the embedded program: parsing, the load, fullscreen, the mouse
EmbedInit == ThemeIdle /\ IndexIdle /\ CanvasIdle /\ EmbedIdle

EmbedNext ==
    \/ ParseComponent
    \/ StartLoad
    \/ LoadSucceeds
    \/ LoadFails
    \/ \E target \in Targets : ContextMenu(target)
    \/ ClickFullscreen
    \/ \E entered \in BOOLEAN : FullscreenChange(entered)
    \/ FullscreenDenied
    \/ \E c \in Cursors : ProgramCursor(c)
    \/ Reload

SpecEmbed == EmbedInit /\ [][EmbedNext]_vars

\* a key press once the inline script has registered the keydown listener
KeyDownOnPage(code) ==
    /\ pagePc # "start"
    /\ KeyDown(code)

\* a page that carries both the header's switch and the embedded program: the
\* switch's renders and toggles interleave with the embed's handlers
BridgeInit == InitTheme /\ IndexIdle /\ CanvasIdle /\ EmbedIdle

BridgeNext ==
    \/ Mount(1)
    \/ Subscribe(1)
    \/ Render(1)
    \/ onCheckedChange(1)
    \/ ParseComponent
    \/ StartLoad
    \/ LoadSucceeds
    \/ \E target \in Targets : ContextMenu(target)
    \/ ClickFullscreen
    \/ \E entered \in BOOLEAN : FullscreenChange(entered)
    \/ \E code \in Codes : KeyDownOnPage(code)

SpecBridge == BridgeInit /\ [][BridgeNext]_vars

\* ------------------------------------------------------------ properties
TypeOK ==
    /\ localStorage \in StoredValues
    /\ storageOK \in BOOLEAN
    /\ theme \in {"none", "dark", "light"}
    /\ darkModeAtom \in BOOLEAN
    /\ mounted \in [Switches -> BOOLEAN]
    /\ subscribed \in [Switches -> BOOLEAN]
    /\ pending \in [Switches -> BOOLEAN]
    /\ darkMode \in [Switches -> BOOLEAN]
    /\ \A i \in Switches : memoDeps[i] \in {<<>>, <<TRUE>>, <<FALSE>>}
    /\ uncaught \in BOOLEAN
    /\ page \in {"full", "swap"}
    /\ clicks \in 0..MaxClicks
    /\ navs \in 0..MaxNavs
    /\ loads \in 0..MaxLoads
    /\ Len(snap) <= 2
    /\ Len(lastToggle) <= 1
    /\ pagePc \in {"start", "inline"}
    /\ scriptLoad \in {"none", "loading", "loaded", "failed"}
    /\ attempts \in 0..1
    /\ drawn \in BOOLEAN
    /\ fullscreen \in BOOLEAN
    /\ cursor \in Cursors
    /\ fsRequest \in {NoRequest, [NoRequest EXCEPT !.made = TRUE, !.resizeCanvas = TRUE]}
    /\ views \in 1..MaxViews

Marker(b) == IF b THEN "dark" ELSE "light"
LastSnap == snap[Len(snap)]
BothMounted == \A i \in Switches : mounted[i]
\* rendering has settled: a switch is on the page, and every switch on it has
\* subscribed and has no render outstanding
Settled ==
    /\ \E i \in Switches : mounted[i]
    /\ \A i \in Switches : mounted[i] => subscribed[i] /\ ~pending[i]

\* C1: after a toggle has completed (handler run, every switch re-rendered),
\* data-theme is "dark" iff the shared boolean is true and "light" otherwise
C1_ThemeMatchesBoolean ==
    (clicks > 0 /\ Settled) => theme = Marker(darkModeAtom)

C1_Witness ==
    /\ clicks = 2 /\ Settled /\ last = "render"
    /\ darkModeAtom /\ theme = "dark"

\* C2: with "true" stored under darkMode, the root carries data-theme="dark"
\* on every page load before any island code has run
C2_DarkBeforeIslands ==
    (storageOK /\ localStorage = "true" /\ \A i \in Switches : ~mounted[i])
        => theme = "dark"

\* two toggles, each made on a switch that showed the current boolean
ToggledTwice == Len(snap) = 2 /\ snap[1].fresh /\ snap[2].fresh
\* boolean, attribute and persisted value agree: the attribute is the boolean's
\* marker and the stored string reads as the boolean
AgreeAt(s) == s.theme = Marker(s.atom) /\ ((s.stored = "true") <=> s.atom)

C4_ClickWritesNegation ==
    last = "click"
        => /\ theme = (IF LastSnap.captured THEN "light" ELSE "dark")
           /\ darkModeAtom = ~LastSnap.captured
           /\ theme = Marker(darkModeAtom)
           /\ darkMode[LastSnap.sw] = LastSnap.captured
           /\ LastSnap.fresh => darkModeAtom = ~LastSnap.atom

C4_Witness ==
    /\ last = "click" /\ LastSnap.captured /\ LastSnap.fresh
    /\ theme = "light" /\ pending[LastSnap.sw]

\* C5: with local storage available, after every toggle of the page view the
\* stored value is "true" exactly when the shared boolean is true
C5_PersistedEncodesBoolean ==
    (storageOK /\ clicks > 0) => ((localStorage = "true") <=> darkModeAtom)

C5_Witness ==
    /\ storageOK /\ clicks > 0 /\ Settled
    /\ LastSnap.stored = Absent /\ localStorage = "true" /\ darkModeAtom

\* a page change happened after the last toggle
PageChangedSinceToggle == Len(lastToggle) = 1 /\ clicks = 0

\* C6: with storage available, the page shown after a page change (right after
\* the swap of an in-site navigation, and on any page once its switches have
\* settled) has data-theme="dark" iff the last toggle left the boolean true
C6_ThemeSurvivesPageChange ==
    (storageOK /\ PageChangedSinceToggle /\ (last = "swap" \/ Settled))
        => ((theme = "dark") <=> lastToggle[1])

C6_Witness ==
    /\ storageOK /\ PageChangedSinceToggle /\ last = "swap"
    /\ lastToggle[1] /\ theme = "dark"

\* C7: with local storage failing, a toggle still flips the boolean and writes
\* the matching marker; the stored value is untouched, the handler raises no
\* error and the switch stays mounted
C7_ToggleWithoutStorage ==
    (last = "click" /\ ~storageOK)
        => /\ darkModeAtom = ~LastSnap.captured
           /\ theme = Marker(darkModeAtom)
           /\ localStorage = LastSnap.stored
           /\ uncaught = LastSnap.uncaught
           /\ mounted[LastSnap.sw]

C7_Witness ==
    /\ last = "click" /\ ~storageOK /\ LastSnap.fresh
    /\ ~LastSnap.atom /\ darkModeAtom /\ theme = "dark"

\* C8: once rendering has settled, every mounted switch shows the value of
\* the one shared cell, whichever switch made the toggle
C8_AllReadersAgree ==
    Settled => \A i \in Switches : mounted[i] => darkMode[i] = darkModeAtom

C8_Witness ==
    /\ Settled /\ BothMounted /\ clicks > 0
    /\ LastSnap.sw = 1 /\ LastSnap.fresh
    /\ darkMode[2] = ~LastSnap.captured

\* every point of the rectangle lies in the viewport
SurfaceInside(r, w, h) ==
    \A x \in r.left..r.right, y \in r.top..r.bottom : 0 <= x /\ x <= w /\ 0 <= y /\ y <= h
\* the rectangle and the viewport share no area
SurfaceOffScreen(r, w, h) ==
    r.bottom <= 0 \/ r.top >= h \/ r.right <= 0 \/ r.left >= w

\* C9: on the home page an article with a later publish date is listed before
\* every article with an earlier one
C9_NewestFirst ==
    indexPc = "rendered"
        => \A a, b \in DOMAIN collection :
               collection[a].pubDate < collection[b].pubDate
                   => \E i, j \in DOMAIN listing :
                          /\ listing[i] = collection[b].slug
                          /\ listing[j] = collection[a].slug
                          /\ i < j

C9_Witness ==
    /\ indexPc = "rendered" /\ Len(collection) = 3
    /\ collection[1].pubDate < collection[2].pubDate
    /\ collection[2].pubDate < collection[3].pubDate
    /\ listing = <<3, 2, 1>>

\* C10: an arrow key's default action is prevented when the canvas lies fully
\* inside the viewport and is left to the browser when the canvas is off-screen
C10_ArrowKeys ==
    key.code \in Arrows
        => /\ SurfaceInside(key.rect, key.w, key.h) => key.defaultPrevented
           /\ SurfaceOffScreen(key.rect, key.w, key.h) => ~key.defaultPrevented

C10_WitnessInside ==
    /\ key.code = "ArrowDown" /\ SurfaceInside(key.rect, key.w, key.h)
    /\ key.defaultPrevented /\ rect = key.rect

C10_WitnessOffScreen ==
    /\ key.code = "ArrowDown" /\ SurfaceOffScreen(key.rect, key.w, key.h)
    /\ key.rect.top >= key.h /\ ~key.defaultPrevented /\ rect # key.rect

\* C11: a Space press has its default prevented while the canvas is fully
\* visible in the viewport, and only then
C11_SpaceLikeArrows ==
    key.code = "Space"
        => (key.defaultPrevented <=> SurfaceInside(key.rect, key.w, key.h))


\* C12: a right-click on the canvas always has its default (the browser's
\* context menu) prevented, whatever the state of the program or of fullscreen
C12_ContextMenuSuppressed ==
    (event.type = "contextmenu" /\ event.target = CanvasElement)
        => event.defaultPrevented

\* a right-click on the canvas after the program failed to load was prevented
C12_Witness ==
    /\ event.type = "contextmenu"
    /\ event.target = CanvasElement
    /\ event.load = "failed"
    /\ event.defaultPrevented

\* C13: once the load of the program has started, the host object exists,
\* refers to the canvas and carries the runtime-initialised callback
C13_HostObjectBeforeLoad ==
    scriptLoad # "none"
        => /\ Module.defined
           /\ Module.canvas = CanvasElement
           /\ Module.onRuntimeInitialized

\* the load is under way and the program has not yet touched the host object
C13_Witness ==
    /\ scriptLoad = "loading"
    /\ Module = HostObject

\* C14 as stated: a click on the fullscreen control makes a fullscreen request
\* that asks for pointer lock and does not ask for the canvas to be resized
C14_PointerLockRequested ==
    (event.type = "click" /\ ~event.threw)
        => (fsRequest.made /\ fsRequest.lockPointer /\ ~fsRequest.resizeCanvas)

\* C14 amended: a click on the fullscreen control, once the program has
\* defined the method, makes a fullscreen request of the canvas that does not
\* ask for pointer lock and does ask for the canvas to be resized; before
\* that the click raises an error and requests nothing
C14_FullscreenRequest ==
    event.type = "click"
        => IF event.threw
           THEN event.load # "loaded" /\ ~fsRequest.made
           ELSE /\ event.load = "loaded"
                /\ fsRequest = [made |-> TRUE, lockPointer |-> FALSE, resizeCanvas |-> TRUE]

\* the control was clicked with the program loaded and the request is pending
C14_Witness ==
    /\ event.type = "click"
    /\ ~event.threw
    /\ fsRequest.made
    /\ ~fullscreen

\* C15: the program is loaded at most once per page view; after a failed load
\* nothing retries, the canvas stays blank and fullscreen cannot be requested
C15_LoadedAtMostOnce ==
    /\ attempts <= 1
    /\ scriptLoad = "failed"
        => /\ attempts = 1
           /\ ~drawn
           /\ ~Module.requestFullscreen
           /\ ~fsRequest.made
           /\ ~fullscreen

\* the load failed and the reader then tried the fullscreen control in vain
C15_Witness ==
    /\ scriptLoad = "failed"
    /\ event.type = "click"
    /\ event.load = "failed"
    /\ event.threw
    /\ ~drawn


\* C16: data-theme is only ever "dark", "light" or absent; a render and a
\* toggle write "dark" or "light", the bootstrap step writes "dark" or leaves
\* what the router's swap left, and only a new document (a swap or a full
\* load) takes a written attribute away
C16_ThemeValues ==
    [][/\ theme' \in {"none", "dark", "light"}
       /\ last' \in {"mount", "render", "click"} => theme' \in {"dark", "light"}
       /\ last' = "swap" => theme' \in {SwapRootAttributes, "dark"}
       /\ (theme # "none" /\ theme' = "none") => last' \in {"swap", "load"}]_vars

\* after a navigation whose bootstrap wrote "dark", a toggle wrote "light"
C16_Witness ==
    /\ page = "swap" /\ last = "click"
    /\ LastSnap.theme = "dark" /\ theme = "light"

\* C17: a render of a switch whose boolean changed since its previous render
\* sets data-theme to the boolean's marker; a render with the boolean
\* unchanged leaves data-theme as it was
C17_RenderReapplies ==
    [][\A i \in Switches :
          (last' = "render" /\ pending[i] /\ ~pending'[i])
              => IF darkMode[i] # darkModeAtom
                 THEN theme' = Marker(darkModeAtom) /\ darkMode'[i] = darkModeAtom
                 ELSE theme' = theme]_vars

\* switch 1 was clicked and switch 2, which had shown the old value, has
\* re-rendered with the new one while switch 1's own render is outstanding
C17_Witness ==
    /\ last = "render" /\ Len(snap) > 0 /\ LastSnap.sw = 1
    /\ mounted[2] /\ subscribed[2] /\ ~pending[2] /\ pending[1]
    /\ darkMode[2] = darkModeAtom /\ darkMode[1] # darkModeAtom
    /\ theme = Marker(darkModeAtom)

\* C18: every click leaves the shared boolean the negation of what it was at
\* the moment of the click
C18_EveryClickFlips ==
    last = "click" => darkModeAtom = ~LastSnap.atom

\* C19: on a page view without a toggle, once every switch on the page has
\* subscribed to the store and rendered, data-theme is the marker of the
\* store's boolean, whatever the bootstrap step wrote
C19_DisagreementTransient ==
    (clicks = 0 /\ Settled) => theme = Marker(darkModeAtom)

\* after a swap the first render had written the marker of the store's old
\* value; hydration changed the boolean and the next render wrote "dark"
C19_Witness ==
    /\ clicks = 0 /\ Settled /\ page = "swap" /\ last = "render"
    /\ lastToggle = <<>> /\ darkModeAtom /\ theme = "dark"

\* C20: the bootstrap step writes nothing to local storage, writes "dark" only
\* for the stored string "true", and otherwise leaves data-theme as the swap
\* left it
C20_BootstrapOnlyAddsDark ==
    [][last' = "swap"
          => /\ localStorage' = localStorage
             /\ theme' # "light"
             /\ (storageOK /\ localStorage = "true") => theme' = "dark"
             /\ ~(storageOK /\ localStorage = "true") => theme' = SwapRootAttributes]_vars

\* the stored string was "TRUE": the step left the attribute absent
C20_Witness ==
    /\ last = "swap" /\ storageOK /\ localStorage = "TRUE" /\ theme = "none"


C22_CursorOnFullscreen ==
    [][(event'.type = "fullscreenchange" /\ fullscreen' # fullscreen)
          => IF fullscreen' THEN cursor' = "default" ELSE cursor' = cursor]_vars

\* fullscreen was left and the cursor the program had set is still in place
C22_Witness ==
    /\ event.type = "fullscreenchange" /\ event.fullscreen /\ ~fullscreen
    /\ cursor = "none"


\* C24: a key other than the four arrows and Space never has its default
\* prevented, wherever the canvas is
C24_OtherKeysUntouched ==
    (key.code # "none" /\ key.code \notin Arrows \cup {"Space"})
        => ~key.defaultPrevented

\* Enter was pressed with the canvas fully visible and was left to the browser
C24_Witness ==
    /\ key.code = "Enter" /\ SurfaceInside(key.rect, key.w, key.h)
    /\ ~key.defaultPrevented

\* the four edges of the rectangle lie inside a viewport of width w, height h
AllEdgesInside(r, w, h) == r.top >= 0 /\ r.left >= 0 /\ r.bottom <= h /\ r.right <= w

\* C25: an arrow key has its default prevented exactly when all four edges of
\* the canvas lie inside the viewport; with any edge outside the browser
\* scrolls the page if it can
C25_ArrowOnlyWhenFullyVisible ==
    key.code \in Arrows
        => /\ key.defaultPrevented <=> AllEdgesInside(key.rect, key.w, key.h)
           /\ (~AllEdgesInside(key.rect, key.w, key.h) /\ Shift(key.rect, 0, -1) \in Rects
                   /\ key.code = "ArrowDown")
                  => rect = Shift(key.rect, 0, -1)

\* the canvas was partly visible, only its bottom edge below the viewport:
\* ArrowDown was left to the browser and the page scrolled
C25_Witness ==
    /\ key.code = "ArrowDown"
    /\ key.rect.top >= 0 /\ key.rect.top < key.h /\ key.rect.left >= 0
    /\ key.rect.right <= key.w /\ key.rect.bottom > key.h
    /\ ~key.defaultPrevented /\ rect = Shift(key.rect, 0, -1)

\* C26: the object the page creates has no fullscreen method; the method
\* exists only once the program has loaded; a click on the control at any
\* other time raises an error, requests nothing and fullscreen is not entered
C26_NoFullscreenBeforeLoad ==
    /\ pagePc = "inline" /\ scriptLoad \in {"none", "loading", "failed"}
           => ~Module.requestFullscreen
    /\ Module.requestFullscreen => scriptLoad = "loaded"
    /\ (event.type = "click" /\ event.load # "loaded")
           => event.threw /\ ~fsRequest.made /\ ~fullscreen

\* the control was clicked while the program was still loading
C26_Witness ==
    /\ event.type = "click" /\ event.load = "loading" /\ event.threw
    /\ ~fsRequest.made /\ ~fullscreen

\* the listing positions at which the article with this slug appears
Positions(slug) == {k \in DOMAIN listing : listing[k] = slug}

\* C27: the listing holds every article of the collection exactly once and
\* nothing else, and articles with equal publish dates appear in the order in
\* which the collection returned them
C27_ListingIsPermutation ==
    indexPc = "rendered"
        => /\ Len(listing) = Len(collection)
           /\ \A a \in DOMAIN collection : Cardinality(Positions(collection[a].slug)) = 1
           /\ \A a, b \in DOMAIN collection :
                  (a < b /\ collection[a].pubDate = collection[b].pubDate)
                      => \A i \in Positions(collection[a].slug),
                            j \in Positions(collection[b].slug) : i < j

\* the first two of three articles share a date older than the third's
C27_Witness ==
    /\ indexPc = "rendered" /\ Len(collection) = 3
    /\ collection[1].pubDate = collection[2].pubDate
    /\ collection[3].pubDate > collection[1].pubDate
    /\ listing = <<3, 1, 2>>


\* C28: with local storage blocked, the bootstrap step's read raises its error
\* in the listener and data-theme stays as the swap left it; on that page the
\* switch still renders, and a toggle still flips the rendered boolean and
\* writes the matching marker
C28_BlockedStorageBootstrap ==
    (~storageOK /\ page = "swap")
        => /\ uncaught
           /\ last = "swap" => theme = SwapRootAttributes
           /\ last \in {"mount", "render"} => theme = Marker(darkModeAtom)
           /\ Settled => \A i \in Switches : mounted[i] => darkMode[i] = darkModeAtom
           /\ last = "click"
                  => /\ darkModeAtom = ~LastSnap.captured
                     /\ theme = Marker(darkModeAtom)
                     /\ mounted[LastSnap.sw]

\* after the failed bootstrap the switch was mounted and toggled to dark
C28_Witness ==
    /\ ~storageOK /\ page = "swap" /\ uncaught /\ last = "click"
    /\ LastSnap.fresh /\ LastSnap.theme = "light" /\ ~LastSnap.atom
    /\ darkModeAtom /\ theme = "dark"


\* C23: a step of the embed (its handlers for contextmenu, fullscreenchange,
\* keydown and the fullscreen button, and its load) leaves the theme boolean,
\* data-theme and the stored value as they were, and a toggle of the switch
\* leaves the host object, its canvas reference and the canvas cursor as they
\* were
C23_BridgeAndThemeDisjoint ==
    [][/\ (embedVars' # embedVars \/ canvasVars' # canvasVars)
              => /\ darkModeAtom' = darkModeAtom
                 /\ theme' = theme
                 /\ localStorage' = localStorage
       /\ clicks' = clicks + 1
              => /\ Module' = Module
                 /\ cursor' = cursor
                 /\ embedVars' = embedVars
                 /\ canvasVars' = canvasVars]_vars

\* the theme was toggled to dark in fullscreen, after a right-click on the
\* canvas and a Space press
C23_Witness ==
    /\ last = "click" /\ theme = "dark" /\ darkModeAtom
    /\ fullscreen /\ cursor = "default" /\ Module.requestFullscreen
    /\ Module.canvas = CanvasElement
    /\ event.type = "contextmenu" /\ event.target = CanvasElement
    /\ key.code = "Space"

====
